---- MODULE Spec2Model ----
(***************************************************************************)
(* Model of src/async_engine.py: DataStreamEngine, a bounded-concurrency   *)
(* HTTP fetch pipeline.  One asyncio.Semaphore gates execute_task; one     *)
(* aiohttp.ClientSession is shared by the tasks of a run_pipeline call;    *)
(* asyncio.gather joins the tasks.  Tasks are cooperative: a task runs     *)
(* from one suspension point (gate wait, response headers, response body)  *)
(* to the next without interleaving, so each such stretch is one action.   *)
(***************************************************************************)
EXTENDS Integers, Sequences, FiniteSets, TLC

VARIABLES
    concurrency_limit,  \* argument of DataStreamEngine.__init__
    engine,             \* "constructed", or "rejected" when __init__ raised
    sem_value,          \* self.semaphore._value
    waiters,            \* self.semaphore._waiters: task indices, FIFO
    target_urls,        \* argument of run_pipeline
    rp,                 \* run_pipeline: "idle", "running", "completed", "failed"
    session,            \* aiohttp.ClientSession: "none", "open", "closed"
    pc,                 \* position of each execute_task invocation
    status_code,        \* response.status seen by each task (0: none yet)
    body,               \* response body handed to response.json() (NoBody: none)
    result,             \* dict returned by each task (NoResult: none yet)
    returned,           \* value returned by run_pipeline (NoResult: none yet)
    requests,           \* number of session.get requests sent per task
    error_log,          \* number of logger.error lines
    info_log,           \* logger.info lines, in order
    overtaken,          \* some task returned while an earlier one had not
    now,                \* the wall clock: time.time(), and asctime of log lines
    start_time,         \* self.start_time
    first_len,          \* how many of target_urls the first run_pipeline call gets
    rp2,                \* a second run_pipeline call on the engine ("none": none)
    session2,           \* the ClientSession of the second call
    returned2           \* value returned by the second call

vars == <<concurrency_limit, engine, sem_value, waiters, target_urls, rp,
          session, pc, status_code, body, result, returned, requests,
          error_log, info_log, overtaken, now, start_time,
          first_len, rp2, session2, returned2>>

clock == <<now, start_time>>
second == <<first_len, rp2, session2, returned2>>

(***************************************************************************)
(* Bounds of the model.                                                    *)
(***************************************************************************)
MaxTargets == 3         \* longest target_urls list of the pipeline runs
MaxLimit == 2           \* largest concurrency_limit tried
MaxEntries == 2         \* largest container / string size in a body

Urls == {"u1", "u2"}

NoResult == [status |-> "NONE"]
NoBody == [kind |-> "none"]

RECURSIVE SeqsUpTo(_, _)
SeqsUpTo(S, n) ==
    IF n = 0 THEN {<<>>}
    ELSE LET shorter == SeqsUpTo(S, n - 1)
         IN  shorter \cup {Append(s, x) : s \in {t \in shorter : Len(t) = n - 1}, x \in S}


(***************************************************************************)
(* What the network can answer.  A body is its Content-Type and its text:  *)
(* either malformed, or the text of a JSON value of some kind and size     *)
(* (entries of an object or array, characters of a string).                *)
(***************************************************************************)
JsonCType == "application/json"
Malformed == [kind |-> "malformed", size |-> 0]

Containers == {"object", "array", "string"}
Scalars == {"number", "null", "bool"}

JsonValues ==
    {[kind |-> k, size |-> n] : k \in Containers, n \in 0..MaxEntries}
        \cup {[kind |-> k, size |-> 0] : k \in Scalars}

\* errors raised by session.get / response.json while waiting on the network
TimeoutError == [type |-> "TimeoutError", msg |-> ""]
ConnectionRefused == [type |-> "ClientConnectorError", msg |-> "Cannot connect to host"]
SessionClosed == [type |-> "RuntimeError", msg |-> "Session is closed"]

\* the answers drawn in pipeline runs (Spec) ...
StatusCodes == {200, 404}
Bodies == {[ctype |-> JsonCType, text |-> [kind |-> "object", size |-> 2]],
           [ctype |-> JsonCType, text |-> Malformed]}
NetErrors == {TimeoutError, ConnectionRefused}

\* ... and the wider ones drawn when classifying single responses (SpecTask)
AllStatusCodes == {200, 201, 204, 301, 404, 500}
AllBodies == {[ctype |-> c, text |-> t] :
                 c \in {JsonCType, "text/plain"}, t \in JsonValues \cup {Malformed}}

(***************************************************************************)
(* Pure parts of execute_task.  A call either returns a value              *)
(* ([ok |-> TRUE, val |-> ..]) or raises ([ok |-> FALSE, exc |-> ..]).     *)
(***************************************************************************)
Returns(v) == [ok |-> TRUE, val |-> v]
Raises(e) == [ok |-> FALSE, exc |-> e]

\* datetime.now() rendered by strftime / isoformat; the clock is not modelled
NowStamp == "YYYY-MM-DD HH:MM:SS"
NowIso == "YYYY-MM-DDTHH:MM:SS"

\* a lenient decoder: a body that does not parse counts as an empty object
ResponseJsonLenient(b) ==
    IF b.text = Malformed
        THEN Returns([kind |-> "object", size |-> 0])
        ELSE Returns(b.text)

\* await response.json(): content-type check, then json.loads
ResponseJson(b) ==
    IF b.ctype # JsonCType
        THEN Raises([type |-> "ContentTypeError",
                     msg |-> "Attempt to decode JSON with unexpected mimetype"])
    ELSE IF b.text = Malformed
        THEN Raises([type |-> "JSONDecodeError", msg |-> "Expecting value"])
    ELSE Returns(b.text)

\* len(data): defined for dict, list and str only
PyLen(data) ==
    IF data.kind \in Containers
        THEN Returns(data.size)
        ELSE Raises([type |-> "TypeError", msg |-> "object has no len()"])

\* _process_logic(data)
ProcessLogic(data) ==
    LET n == PyLen(data)
    IN  IF n.ok
            THEN Returns([origin_count |-> n.val,
                          engine_tag |-> "STF-V1-PRO",
                          processed_at |-> NowIso,
                          cleaned |-> TRUE])
            ELSE n

\* the dict returned on status 200 after a decoded, transformed body
SuccessResult(url, payload) ==
    [status |-> "SUCCESS", url |-> url, payload |-> payload, timestamp |-> NowStamp]

\* the dict returned on any other status: f"HTTP_{status_code}"
HttpResult(url, code) ==
    [status |-> "HTTP_" \o ToString(code), url |-> url]

\* the dict returned by the except clause: str(e)
FailedResult(url, e) ==
    [status |-> "FAILED", url |-> url, error |-> e.msg]


(***************************************************************************)
(* State after construction: DataStreamEngine(concurrency_limit), and the  *)
(* target list a later run_pipeline call is given.                         *)
(***************************************************************************)
Tasks == 1..Len(target_urls)
Tasks1 == 1..first_len
Tasks2 == (first_len + 1)..Len(target_urls)

\* the session argument of execute_task
SessionOf(i) == IF i \in Tasks1 THEN session ELSE session2

Limits == (0 - 1)..MaxLimit
TargetLists == SeqsUpTo(Urls, MaxTargets)

\* __init__: asyncio.Semaphore(value) raises ValueError when value < 0
Construct(limit) ==
    IF limit < 0
        THEN [engine |-> "rejected", value |-> 0]
        ELSE [engine |-> "constructed", value |-> limit]

\* urls holds the targets of the first call, then those of a second call
\* on the same engine when there is one
InitRuns(limit, urls, k, call2) ==
    /\ concurrency_limit = limit
    /\ engine = Construct(limit).engine
    /\ sem_value = Construct(limit).value
    /\ waiters = <<>>
    /\ target_urls = urls
    /\ rp = "idle"
    /\ session = "none"
    /\ pc = [i \in 1..Len(urls) |-> "none"]
    /\ status_code = [i \in 1..Len(urls) |-> 0]
    /\ body = [i \in 1..Len(urls) |-> NoBody]
    /\ result = [i \in 1..Len(urls) |-> NoResult]
    /\ returned = <<>>
    /\ requests = [i \in 1..Len(urls) |-> 0]
    /\ error_log = 0
    /\ info_log = <<>>
    /\ overtaken = FALSE
    /\ now = 0
    /\ start_time = now
    /\ first_len = k
    /\ rp2 = call2
    /\ session2 = "none"
    /\ returned2 = <<>>

InitWith(limit, urls) == InitRuns(limit, urls, Len(urls), "none")

Init == \E limit \in Limits, urls \in TargetLists : InitWith(limit, urls)

(***************************************************************************)
(* The gate: asyncio.Semaphore as used by "async with self.semaphore".     *)
(* A gate value g is [value, waiters, pcs]; a waiter whose future was      *)
(* resolved by _wake_up_next is "woken" and stays in waiters until it      *)
(* resumes.                                                                *)
(***************************************************************************)
Gate == [value |-> sem_value, waiters |-> waiters, pcs |-> pc]

\* a request sent without going through the gate
LockedNever == FALSE

\* a gate that already blocks when one slot is still free
LockedEarly == sem_value <= 1 \/ Len(waiters) > 0

\* a gate that still admits when the counter is already 0
LockedOffByOne == sem_value < 0 \/ Len(waiters) > 0

\* Semaphore.locked()
Locked == sem_value = 0 \/ Len(waiters) > 0

\* Semaphore._wake_up_next(): resolve the first waiter not yet resolved
WakeUpNext(g) ==
    LET pending == {k \in 1..Len(g.waiters) : g.pcs[g.waiters[k]] = "waiting"}
    IN  IF pending = {}
            THEN g
            ELSE LET k == CHOOSE m \in pending : \A n \in pending : m <= n
                 IN  [g EXCEPT !.value = @ - 1, !.pcs[g.waiters[k]] = "woken"]

\* a release that returns the slot but wakes nobody
SemReleaseNoWake(g) == [g EXCEPT !.value = @ + 1]

\* Semaphore.release()
SemRelease(g) == WakeUpNext([g EXCEPT !.value = @ + 1])

\* tasks that have acquired the gate and not yet released it
Holding(i) == pc[i] \in {"woken", "request", "body"}
Held == Cardinality({i \in Tasks : Holding(i)})

AllStarted == \A i \in Tasks : pc[i] # "created"

(***************************************************************************)
(* execute_task, one action per stretch between suspension points.         *)
(***************************************************************************)
\* leaving "async with self.semaphore" with the dict r as return value
Finish(i, r, g) ==
    LET g2 == SemRelease([g EXCEPT !.pcs[i] = "done"])
    IN  /\ sem_value' = g2.value
        /\ waiters' = g2.waiters
        /\ pc' = g2.pcs
        /\ result' = [result EXCEPT ![i] = r]
        /\ overtaken' = (overtaken \/ \E j \in 1..(i - 1) : pc[j] # "done")

\* the exception leaves the task: the gate is released, nothing is returned
Reraise(i, g) ==
    LET g2 == SemRelease([g EXCEPT !.pcs[i] = "raised"])
    IN  /\ sem_value' = g2.value
        /\ waiters' = g2.waiters
        /\ pc' = g2.pcs
        /\ UNCHANGED <<result, error_log, overtaken>>

\* a handler that lets every exception through
ExceptNothing(i, e, g) == Reraise(i, g)

\* a handler written as "except aiohttp.ClientError"
ExceptClientError(i, e, g) ==
    IF e.type \in {"ClientConnectorError", "ContentTypeError"}
        THEN /\ error_log' = error_log + 1
             /\ Finish(i, FailedResult(target_urls[i], e), g)
        ELSE Reraise(i, g)

\* a handler that returns the FAILED dict from outside the gate's scope
\* without giving the slot back
ExceptNoRelease(i, e, g) ==
    /\ error_log' = error_log + 1
    /\ sem_value' = g.value
    /\ waiters' = g.waiters
    /\ pc' = [g.pcs EXCEPT ![i] = "done"]
    /\ result' = [result EXCEPT ![i] = FailedResult(target_urls[i], e)]
    /\ overtaken' = (overtaken \/ \E j \in 1..(i - 1) : pc[j] # "done")

\* a handler that returns the FAILED dict without logging
ExceptSilent(i, e, g) ==
    /\ error_log' = error_log
    /\ Finish(i, FailedResult(target_urls[i], e), g)

\* except Exception as e: log, return the FAILED dict
Except(i, e, g) ==
    /\ error_log' = error_log + 1
    /\ Finish(i, FailedResult(target_urls[i], e), g)

\* session.get(url, timeout=15) entered with the gate held
SessionGet(i, g) ==
    IF SessionOf(i) = "open"
        THEN /\ requests' = [requests EXCEPT ![i] = @ + 1]
             /\ sem_value' = g.value
             /\ waiters' = g.waiters
             /\ pc' = [g.pcs EXCEPT ![i] = "request"]
             /\ UNCHANGED <<result, error_log, overtaken>>
        ELSE /\ UNCHANGED requests
             /\ Except(i, SessionClosed, g)

\* first step of a task: acquire the gate or queue behind it
Start(i) ==
    /\ pc[i] = "created"
    /\ \A j \in 1..(i - 1) : pc[j] # "created"
    /\ IF ~Locked
           THEN SessionGet(i, [Gate EXCEPT !.value = @ - 1])
           ELSE /\ waiters' = Append(waiters, i)
                /\ pc' = [pc EXCEPT ![i] = "waiting"]
                /\ UNCHANGED <<sem_value, result, requests, error_log, overtaken>>
    /\ UNCHANGED <<clock, second, concurrency_limit, engine, target_urls, rp, session,
                   status_code, body, returned, info_log>>

\* a woken waiter resumes inside Semaphore.acquire(), then sends its request
Resume(i) ==
    /\ pc[i] = "woken"
    /\ LET g == [Gate EXCEPT !.waiters = SelectSeq(@, LAMBDA w : w # i)]
           g2 == IF g.value > 0 THEN WakeUpNext(g) ELSE g
       IN  SessionGet(i, g2)
    /\ UNCHANGED <<clock, second, concurrency_limit, engine, target_urls, rp, session,
                   status_code, body, returned, info_log>>

\* a check written as "any 2xx status"
IsOk2xx(code) == code \in 200..299

\* if status_code == 200
IsOk(code) == code = 200

\* response headers arrive: status_code = response.status
Respond(i, code) ==
    /\ pc[i] = "request"
    /\ AllStarted
    /\ status_code' = [status_code EXCEPT ![i] = code]
    /\ IF IsOk(code)
           THEN /\ pc' = [pc EXCEPT ![i] = "body"]
                /\ UNCHANGED <<sem_value, waiters, result, overtaken>>
           ELSE Finish(i, HttpResult(target_urls[i], code), Gate)
    /\ UNCHANGED <<clock, second, concurrency_limit, engine, target_urls, rp, session,
                   body, returned, requests, error_log, info_log>>

\* the body arrives: response.json(), _process_logic, SUCCESS dict
ReadBody(i, b) ==
    /\ pc[i] = "body"
    /\ body' = [body EXCEPT ![i] = b]
    /\ LET data == ResponseJson(b)
           payload == ProcessLogic(data.val)
       IN  IF ~data.ok THEN Except(i, data.exc, Gate)
           ELSE IF ~payload.ok THEN Except(i, payload.exc, Gate)
           ELSE /\ Finish(i, SuccessResult(target_urls[i], payload.val), Gate)
                /\ UNCHANGED error_log
    /\ UNCHANGED <<clock, second, concurrency_limit, engine, target_urls, rp, session,
                   status_code, returned, requests, info_log>>

\* the retry the docstring of execute_task announces: a failed request is
\* sent again, twice at most, before the task gives up
NetworkErrorRetry(i, e) ==
    /\ pc[i] \in {"request", "body"}
    /\ AllStarted
    /\ IF requests[i] < 3
           THEN /\ requests' = [requests EXCEPT ![i] = @ + 1]
                /\ pc' = [pc EXCEPT ![i] = "request"]
                /\ status_code' = [status_code EXCEPT ![i] = 0]
                /\ UNCHANGED <<sem_value, waiters, result, error_log, overtaken>>
           ELSE Except(i, e, Gate) /\ UNCHANGED <<requests, status_code>>
    /\ UNCHANGED <<clock, second, concurrency_limit, engine, target_urls, rp, session,
                   body, returned, info_log>>

\* the request or the body read fails: timeout after 15 s, connection error
NetworkError(i, e) ==
    /\ pc[i] \in {"request", "body"}
    /\ AllStarted
    /\ Except(i, e, Gate)
    /\ UNCHANGED <<clock, second, concurrency_limit, engine, target_urls, rp, session,
                   status_code, body, returned, requests, info_log>>

(***************************************************************************)
(* run_pipeline.                                                           *)
(***************************************************************************)
\* results collected newest first
GatherReversed == [i \in Tasks1 |-> result[first_len + 1 - i]]

\* results keyed by URL: one entry per distinct URL, first occurrence kept
GatherByUrl ==
    LET first == SelectSeq([i \in Tasks1 |-> i],
                           LAMBDA i : \A j \in 1..(i - 1) : target_urls[j] # target_urls[i])
    IN  [k \in 1..Len(first) |-> result[first[k]]]

\* asyncio.gather(*tasks): the results in the order of the awaitables
Gather == [i \in Tasks1 |-> result[i]]

\* the tail of run_pipeline after gather: log, leave the session, return
Complete(log) ==
    /\ info_log' = Append(log, [level |-> "INFO", msg |-> "Pipeline completed",
                                 elapsed |-> now - start_time, asctime |-> now])
    /\ returned' = Gather
    /\ session' = "closed"
    /\ rp' = "completed"

\* the call up to "await asyncio.gather"; with no targets gather is
\* already done and the call runs through
RunPipeline ==
    /\ engine = "constructed"
    /\ rp = "idle"
    /\ LET log == Append(info_log, [level |-> "INFO", msg |-> "Initializing pipeline",
                                    targets |-> first_len, asctime |-> now])
       IN  IF Tasks1 = {}
               THEN Complete(log) /\ UNCHANGED pc
               ELSE /\ info_log' = log
                    /\ session' = "open"
                    /\ rp' = "running"
                    /\ pc' = [i \in Tasks |-> IF i \in Tasks1 THEN "created" ELSE pc[i]]
                    /\ UNCHANGED returned
    /\ UNCHANGED <<clock, second, concurrency_limit, engine, sem_value, waiters, target_urls,
                   status_code, body, result, requests, error_log, overtaken>>

\* a join that returns as soon as the first task has returned
PipelineReturnFirst ==
    /\ rp = "running"
    /\ \E i \in Tasks1 : pc[i] = "done"
    /\ Complete(info_log)
    /\ UNCHANGED <<clock, second, concurrency_limit, engine, sem_value, waiters, target_urls,
                   pc, status_code, body, result, requests, error_log, overtaken>>

\* gather resolves when the last task has returned
PipelineReturn ==
    /\ rp = "running"
    /\ \A i \in Tasks1 : pc[i] = "done"
    /\ Complete(info_log)
    /\ UNCHANGED <<clock, second, concurrency_limit, engine, sem_value, waiters, target_urls,
                   pc, status_code, body, result, requests, error_log, overtaken>>

Next ==
    \/ RunPipeline
    \/ \E i \in Tasks : Start(i)
    \/ \E i \in Tasks : Resume(i)
    \/ \E i \in Tasks, code \in StatusCodes : Respond(i, code)
    \/ \E i \in Tasks, b \in Bodies : ReadBody(i, b)
    \/ \E i \in Tasks, e \in NetErrors : NetworkError(i, e)
    \/ PipelineReturn

Spec == Init /\ [][Next]_vars


(***************************************************************************)
(* Scheduling: the event loop runs every ready task, and every request     *)
(* sent is answered or runs into its 15 s timeout, so a step that stays    *)
(* possible is taken.                                                      *)
(***************************************************************************)
\* scheduling does not depend on the URLs: the target lists differ in length
InitLive ==
    \E limit \in Limits, urls \in SeqsUpTo({"u1"}, MaxTargets) : InitWith(limit, urls)

SpecLive == InitLive /\ [][Next]_vars /\ WF_vars(Next)

(***************************************************************************)
(* Classifying single responses: one gate slot, a short list of targets,   *)
(* and every status code, body and content type of the wider sets.         *)
(***************************************************************************)
MaxTaskTargets == 2

InitTask ==
    \E urls \in SeqsUpTo({"u1"}, MaxTaskTargets) : urls # <<>> /\ InitWith(1, urls)

NextTask ==
    \/ RunPipeline
    \/ \E i \in Tasks : Start(i)
    \/ \E i \in Tasks : Resume(i)
    \/ \E i \in Tasks, code \in AllStatusCodes : Respond(i, code)
    \/ \E i \in Tasks, b \in AllBodies : ReadBody(i, b)
    \/ \E i \in Tasks, e \in NetErrors : NetworkError(i, e)
    \/ PipelineReturn

SpecTask == InitTask /\ [][NextTask]_vars

(***************************************************************************)
(* Faults at the gate and at the session.  Semaphore.acquire() can raise   *)
(* only on its waiting path (the fast path just decrements the counter);   *)
(* the exception leaves execute_task, because "async with self.semaphore"  *)
(* encloses the try.  gather then hands the first exception to             *)
(* run_pipeline, which leaves "async with ClientSession()" and so closes   *)
(* the session under the tasks still running.                              *)
(***************************************************************************)
AcquireFault(i) ==
    /\ pc[i] = "created"
    /\ \A j \in 1..(i - 1) : pc[j] # "created"
    /\ Locked
    /\ pc' = [pc EXCEPT ![i] = "raised"]
    /\ UNCHANGED <<clock, second, concurrency_limit, engine, sem_value, waiters, target_urls, rp,
                   session, status_code, body, result, returned, requests,
                   error_log, info_log, overtaken>>

\* await asyncio.gather(*tasks) raises: the session is left, the call fails
PipelineRaise ==
    /\ rp = "running"
    /\ AllStarted
    /\ \E i \in Tasks : pc[i] = "raised"
    /\ rp' = "failed"
    /\ session' = "closed"
    /\ UNCHANGED <<clock, second, concurrency_limit, engine, sem_value, waiters, target_urls,
                   pc, status_code, body, result, returned, requests,
                   error_log, info_log, overtaken>>

\* aiohttp.ClientSession() itself fails: no task was created
SessionFault ==
    /\ engine = "constructed"
    /\ rp = "idle"
    /\ info_log' = Append(info_log, [level |-> "INFO", msg |-> "Initializing pipeline",
                                     targets |-> first_len, asctime |-> now])
    /\ rp' = "failed"
    /\ UNCHANGED <<clock, second, concurrency_limit, engine, sem_value, waiters, target_urls,
                   session, pc, status_code, body, result, returned, requests,
                   error_log, overtaken>>

NextFault ==
    \/ Next
    \/ \E i \in Tasks : AcquireFault(i)
    \/ PipelineRaise
    \/ SessionFault

\* faults are injected into engines with a valid limit
InitFault ==
    \E limit \in 1..MaxLimit, urls \in TargetLists : InitWith(limit, urls)

SpecFault == InitFault /\ [][NextFault]_vars


(***************************************************************************)
(* A second run_pipeline call on the same engine, made while the first is  *)
(* in progress or after it.  It has its own session, its own gather and    *)
(* its own tasks (Tasks2); the semaphore is the engine's.  The event loop  *)
(* runs the first steps of the tasks of a call back to back, so the second *)
(* call is made before or after them, not in between.                      *)
(***************************************************************************)
Gather2 == [k \in 1..(Len(target_urls) - first_len) |-> result[first_len + k]]

Complete2(log) ==
    /\ info_log' = Append(log, [level |-> "INFO", msg |-> "Pipeline completed",
                                 elapsed |-> now - start_time, asctime |-> now])
    /\ returned2' = Gather2
    /\ session2' = "closed"
    /\ rp2' = "completed"

\* a call that starts by giving the engine a new semaphore
RunPipeline2FreshGate ==
    /\ engine = "constructed"
    /\ rp # "idle"
    /\ rp2 = "idle"
    /\ (\A i \in Tasks1 : pc[i] = "created") \/ AllStarted
    /\ Tasks2 # {}
    /\ sem_value' = concurrency_limit
    /\ waiters' = <<>>
    /\ info_log' = Append(info_log, [level |-> "INFO", msg |-> "Initializing pipeline",
                                     targets |-> Len(target_urls) - first_len,
                                     asctime |-> now])
    /\ session2' = "open"
    /\ rp2' = "running"
    /\ pc' = [i \in Tasks |-> IF i \in Tasks2 THEN "created" ELSE pc[i]]
    /\ UNCHANGED <<clock, first_len, returned2, concurrency_limit, engine,
                   target_urls, rp, session, status_code, body, result, returned,
                   requests, error_log, overtaken>>

RunPipeline2 ==
    /\ engine = "constructed"
    /\ rp # "idle"
    /\ rp2 = "idle"
    /\ (\A i \in Tasks1 : pc[i] = "created") \/ AllStarted
    /\ LET log == Append(info_log, [level |-> "INFO", msg |-> "Initializing pipeline",
                                    targets |-> Len(target_urls) - first_len,
                                    asctime |-> now])
       IN  IF Tasks2 = {}
               THEN Complete2(log) /\ UNCHANGED pc
               ELSE /\ info_log' = log
                    /\ session2' = "open"
                    /\ rp2' = "running"
                    /\ pc' = [i \in Tasks |-> IF i \in Tasks2 THEN "created" ELSE pc[i]]
                    /\ UNCHANGED returned2
    /\ UNCHANGED <<clock, first_len, concurrency_limit, engine, sem_value, waiters,
                   target_urls, rp, session, status_code, body, result, returned,
                   requests, error_log, overtaken>>

PipelineReturn2 ==
    /\ rp2 = "running"
    /\ \A i \in Tasks2 : pc[i] = "done"
    /\ Complete2(info_log)
    /\ UNCHANGED <<clock, first_len, concurrency_limit, engine, sem_value, waiters,
                   target_urls, rp, session, pc, status_code, body, result, returned,
                   requests, error_log, overtaken>>

\* the URLs only label the results: the lists tried alternate two URLs, so
\* neighbours differ and URLs repeat, and are cut between the calls anywhere
AlternatingUrls(n) == [i \in 1..n |-> IF i % 2 = 1 THEN "u1" ELSE "u2"]

InitTwo ==
    \E limit \in 1..MaxLimit, n \in 0..MaxTargets :
        \E k \in 0..n : InitRuns(limit, AlternatingUrls(n), k, "idle")

NextTwo ==
    \/ Next
    \/ RunPipeline2
    \/ PipelineReturn2

SpecTwo == InitTwo /\ [][NextTwo]_vars

(***************************************************************************)
(* Wall-clock time.  Time passes between any two steps, also between the   *)
(* construction of the engine and the call of run_pipeline; the elapsed    *)
(* time of the completion line is counted in ticks (the log prints it      *)
(* with two decimals).                                                     *)
(***************************************************************************)
MaxClock == 3
MaxClockTargets == 2

Tick ==
    /\ now < MaxClock
    /\ now' = now + 1
    /\ UNCHANGED <<concurrency_limit, engine, sem_value, waiters, target_urls, rp,
                   session, pc, status_code, body, result, returned, requests,
                   error_log, info_log, overtaken, start_time, second>>

InitClock ==
    \E urls \in SeqsUpTo({"u1"}, MaxClockTargets) : InitWith(1, urls)

NextClock ==
    \/ Next
    \/ Tick

SpecClock == InitClock /\ [][NextClock]_vars

(***************************************************************************)
(* Properties.                                                             *)
(***************************************************************************)
Done(i) == pc[i] = "done"
IsFailed(i) == Done(i) /\ result[i].status = "FAILED"

\* C1: with a concurrency limit C >= 1, at most C execute_task invocations
\* have acquired the gate and not yet released it, in every reachable state.
C1_AdmissionBound ==
    concurrency_limit >= 1 => Held <= concurrency_limit

C1_Witness ==
    /\ concurrency_limit >= 1
    /\ Len(target_urls) > concurrency_limit
    /\ Held = concurrency_limit
    /\ \E i \in Tasks : pc[i] = "waiting"
    /\ \E i \in Tasks : Done(i)

\* C2: the sequence run_pipeline returns has at position i the result whose
\* url is the i-th target, whatever the order in which the tasks completed.
C2_InputOrder ==
    rp = "completed" =>
        /\ Len(returned) = Len(target_urls)
        /\ \A i \in Tasks : returned[i].url = target_urls[i]

C2_Witness ==
    /\ rp = "completed"
    /\ overtaken
    /\ Len(target_urls) >= 2
    /\ target_urls[1] # target_urls[2]

\* C3: run_pipeline returns exactly one result per input position (also for
\* the empty list and for repeated URLs), and the result of a position is
\* produced once and never changes afterwards.
C3_Coverage ==
    /\ [](rp = "completed" =>
            /\ Len(returned) = Len(target_urls)
            /\ \A i \in Tasks : Done(i) /\ result[i] # NoResult /\ returned[i] = result[i])
    /\ [][\A i \in Tasks : result[i] # NoResult => result'[i] = result[i]]_vars

C3_Witness ==
    /\ rp = "completed"
    /\ Len(target_urls) >= 2
    /\ target_urls[1] = target_urls[2]
    /\ returned[1] # returned[2]

\* the result of task j follows from its own target and its own response
OwnOutcome(j) ==
    /\ result[j].url = target_urls[j]
    /\ result[j].status = "SUCCESS" => status_code[j] = 200 /\ body[j] # NoBody
    /\ status_code[j] \notin {0, 200} => result[j] = HttpResult(target_urls[j], status_code[j])
    /\ status_code[j] = 0 => result[j].status = "FAILED"

\* C4: a failing task (timeout, bad JSON, connection refused) never ends
\* another task: every task that is done has the result of its own response,
\* none is ended by an exception, and once some task has failed the pipeline
\* still completes with one result per target.
C4_NonPropagation ==
    /\ [](\A j \in Tasks : pc[j] # "raised" /\ (Done(j) => OwnOutcome(j)))
    /\ (\E i \in Tasks : IsFailed(i))
           ~> (rp = "completed" /\ Len(returned) = Len(target_urls))

C4_Witness ==
    /\ rp = "completed"
    /\ Len(returned) = Len(target_urls)
    /\ \E i, j \in Tasks : i < j /\ IsFailed(i) /\ returned[j].status = "SUCCESS"
    /\ \E i \in Tasks : IsFailed(i) /\ result[i].error = ""

\* C5: execute_task never raises outward: on a network error, a timeout, a
\* malformed body or a failure inside the payload transform the invocation
\* ends by returning a result record.
C5_NeverRaises ==
    \A i \in Tasks :
        /\ pc[i] # "raised"
        /\ Done(i) => /\ "status" \in DOMAIN result[i]
                      /\ result[i] # NoResult
                      /\ result[i].url = target_urls[i]

C5_Witness ==
    \E i \in Tasks :
        /\ IsFailed(i)
        /\ status_code[i] = 200
        /\ body[i] # NoBody
        /\ body[i].ctype = JsonCType
        /\ body[i].text.kind \in Scalars


\* C6: a fault at the gate or at the session is fatal to its task only: no
\* task ends by raising (it ends FAILED instead), and run_pipeline fails
\* only when the session could not be created, before any task started.
C6_FaultContained ==
    /\ \A i \in Tasks : pc[i] # "raised"
    /\ rp = "failed" => \A i \in Tasks : pc[i] = "none"

\* C7: with a concurrency limit C >= 1 and fair scheduling, every task
\* waiting at the gate is eventually admitted, every task eventually
\* resolves, and a running pipeline eventually completes and returns.
C7_NoDeadlock ==
    /\ \A i \in 1..MaxTargets :
           (concurrency_limit >= 1 /\ i \in Tasks /\ pc[i] = "waiting")
               ~> (i \in Tasks /\ pc[i] \in {"woken", "request", "body", "done"})
    /\ \A i \in 1..MaxTargets :
           (concurrency_limit >= 1 /\ i \in Tasks /\ pc[i] = "created")
               ~> (i \in Tasks /\ Done(i))
    /\ (concurrency_limit >= 1 /\ rp = "running")
           ~> (rp = "completed" /\ Len(returned) = Len(target_urls))

C7_Witness ==
    /\ rp = "completed"
    /\ concurrency_limit >= 1
    /\ Len(target_urls) > concurrency_limit
    /\ Len(returned) = Len(target_urls)
    /\ waiters = <<>>

\* C8: no engine exists whose gate capacity is below 1 (a limit below 1 is
\* rejected or clamped at construction), so no run over a non-empty target
\* list has every task stuck at a gate nobody holds.
C8_LimitPositive ==
    /\ engine = "constructed" => concurrency_limit >= 1 /\ sem_value + Held >= 1
    /\ ~(rp = "running" /\ Held = 0 /\ \A i \in Tasks : pc[i] = "waiting")

\* C9: a task that got status 200 and a body that is valid JSON, of any
\* kind, returns SUCCESS with a timestamp and a payload whose origin_count
\* is the number of top-level entries of the decoded value.
C9_SuccessOnValidJson ==
    \A i \in Tasks :
        (Done(i) /\ status_code[i] = 200 /\ body[i] # NoBody /\ body[i].text # Malformed)
            => /\ result[i].status = "SUCCESS"
               /\ "timestamp" \in DOMAIN result[i]
               /\ body[i].text.kind \in {"object", "array"}
                      => result[i].payload.origin_count = body[i].text.size

\* the status names of the codes in AllStatusCodes, written out
StatusName(code) ==
    CASE code = 201 -> "HTTP_201"
      [] code = 204 -> "HTTP_204"
      [] code = 301 -> "HTTP_301"
      [] code = 404 -> "HTTP_404"
      [] code = 500 -> "HTTP_500"
      [] OTHER -> "?"

\* C10: a task that got a status code other than 200 returns exactly
\* {status: HTTP_<code>, url}: no payload, no timestamp, no error, and its
\* body was never read, decoded or transformed.
C10_HttpError ==
    \A i \in Tasks :
        (status_code[i] \notin {0, 200})
            => /\ Done(i)
               /\ result[i] = [status |-> StatusName(status_code[i]), url |-> target_urls[i]]
               /\ DOMAIN result[i] = {"status", "url"}
               /\ body[i] = NoBody

C10_Witness ==
    /\ \E i \in Tasks : Done(i) /\ status_code[i] = 204 /\ result[i].status = "HTTP_204"
    /\ \E i \in Tasks : Done(i) /\ status_code[i] = 500 /\ result[i].status = "HTTP_500"


\* the request or the decoding of task i failed: no response at all, no
\* body after a 200 response, or a body that is not JSON
RequestOrDecodeFailed(i) ==
    /\ pc[i] \in {"done", "raised"}
    /\ \/ status_code[i] = 0
       \/ status_code[i] = 200 /\ body[i] = NoBody
       \/ status_code[i] = 200 /\ body[i] # NoBody /\ body[i].text = Malformed

\* C11: a task whose request or decoding failed (network error, timeout,
\* malformed JSON on a 200 response) returns status FAILED with its own
\* target and neither payload nor timestamp; it never returns SUCCESS or
\* HTTP_<code> and never ends by raising.
C11_FailureIsFailed ==
    \A i \in Tasks :
        RequestOrDecodeFailed(i)
            => /\ Done(i)
               /\ result[i].status = "FAILED"
               /\ result[i].url = target_urls[i]
               /\ DOMAIN result[i] = {"status", "url", "error"}

C11_Witness ==
    /\ \E i \in Tasks : IsFailed(i) /\ status_code[i] = 200 /\ body[i] # NoBody
                            /\ body[i].text = Malformed
    /\ \E i \in Tasks : IsFailed(i) /\ status_code[i] = 0


\* C12: every FAILED result carries a non-empty reason, also after a
\* timeout whose error object has an empty message.
C12_NonEmptyReason ==
    \A i \in Tasks : IsFailed(i) => result[i].error # ""

\* C13: the shared session is open whenever some task is admitted or has a
\* request in flight, and closed once run_pipeline has returned; the call
\* completes only when every task has returned, and what it returns has a
\* result at every position.
C13_SessionScope ==
    /\ (\E i \in Tasks : Holding(i)) => session = "open" /\ rp = "running"
    /\ rp = "completed" =>
           /\ session = "closed"
           /\ \A i \in Tasks : Done(i)
           /\ Len(returned) = Len(target_urls)
           /\ \A i \in Tasks : returned[i] # NoResult
    /\ rp \in {"idle", "running"} => returned = <<>>

C13_Witness ==
    /\ rp = "completed"
    /\ session = "closed"
    /\ \E i \in Tasks : IsFailed(i)
    /\ \E i \in Tasks : returned[i].status = "HTTP_404"

\* C14: the gate slot is given back on every exit path of execute_task: the
\* slots taken from the counter are exactly those of the tasks inside the
\* gate, a task that has returned holds none, and once run_pipeline has
\* completed no slot is held and the counter is back at C.
C14_SlotReleased ==
    engine = "constructed" =>
        /\ sem_value + Held = concurrency_limit
        /\ rp = "completed" =>
               /\ Held = 0
               /\ sem_value = concurrency_limit
               /\ waiters = <<>>

C14_Witness ==
    /\ rp = "completed"
    /\ sem_value = concurrency_limit
    /\ \E i \in Tasks : returned[i].status = "SUCCESS"
    /\ \E i \in Tasks : returned[i].status = "HTTP_404"
    /\ \E i \in Tasks : returned[i].status = "FAILED"


\* tasks whose GET request is in flight or whose body is being read
InFlight == {i \in Tasks : pc[i] \in {"request", "body"}}

\* C15: a request is sent, and a body decoded, only by a task that holds a
\* gate slot taken from the counter, so the requests in flight never
\* outnumber the slots taken, nor C.
C15_RequestsGated ==
    /\ [](engine = "constructed" =>
            /\ Cardinality(InFlight) <= concurrency_limit - sem_value
            /\ Cardinality(InFlight) <= concurrency_limit)
    /\ [][\A i \in Tasks :
            /\ requests'[i] # requests[i] => pc'[i] = "request" /\ sem_value' < concurrency_limit
            /\ body'[i] # body[i] => pc[i] = "body" /\ sem_value < concurrency_limit]_vars

C15_Witness ==
    /\ concurrency_limit >= 1
    /\ Len(target_urls) > concurrency_limit
    /\ Cardinality(InFlight) = concurrency_limit
    /\ \E i \in Tasks : pc[i] = "body"
    /\ \E i \in Tasks : pc[i] = "waiting"

C17_BlocksOnlyWhenFull ==
    engine = "constructed" =>
        /\ (\E i \in Tasks : pc[i] = "waiting") =>
               sem_value = 0 /\ Held = concurrency_limit
        /\ Len(target_urls) <= concurrency_limit =>
               \A i \in Tasks : pc[i] \notin {"waiting", "woken"}

C17_Witness ==
    /\ concurrency_limit >= 1
    /\ \E i \in Tasks : pc[i] = "woken"
    /\ \E i \in Tasks : pc[i] = "waiting"
    /\ \E i \in Tasks : Done(i)

\* C18: one error-level log line per task whose result is FAILED and none
\* for SUCCESS or HTTP_<code>: the number of error lines equals the number
\* of FAILED results.
C18_ErrorLogPerFailure ==
    error_log = Cardinality({i \in Tasks : IsFailed(i)})

C18_Witness ==
    /\ rp = "completed"
    /\ error_log = 2
    /\ \E i \in Tasks : returned[i].status \notin {"FAILED"}


\* C19: a run_pipeline call logs exactly two informational lines: the start
\* line with the target count, and after all tasks have returned the
\* completion line, whose elapsed value is the time from that run's start
\* to its completion, also when the engine was constructed earlier.
C19_ElapsedOfRun ==
    rp = "completed" =>
        /\ Len(info_log) = 2
        /\ info_log[1].msg = "Initializing pipeline"
        /\ info_log[1].targets = Len(target_urls)
        /\ info_log[2].msg = "Pipeline completed"
        /\ info_log[2].elapsed = info_log[2].asctime - info_log[1].asctime


\* C20: the gate is the engine's: when two run_pipeline calls on one engine
\* overlap, the tasks of both go through the same gate and never more than
\* C of them hold it, and each call returns the results of its own targets,
\* one per target and in their order.
C20_SharedGate ==
    /\ Held <= concurrency_limit
    /\ sem_value + Held = concurrency_limit
    /\ rp = "completed" =>
           /\ Len(returned) = first_len
           /\ \A i \in Tasks1 : returned[i] = result[i] /\ returned[i].url = target_urls[i]
    /\ rp2 = "completed" =>
           /\ Len(returned2) = Len(target_urls) - first_len
           /\ \A i \in Tasks2 : /\ returned2[i - first_len] = result[i]
                                /\ returned2[i - first_len].url = target_urls[i]

C20_Witness ==
    /\ rp = "running"
    /\ rp2 = "running"
    /\ Held = concurrency_limit
    /\ \E i \in Tasks1 : Holding(i)
    /\ \E i \in Tasks2 : Holding(i)
    /\ \E i \in Tasks : pc[i] = "waiting"

====
